---- MODULE Spec2Model ----
(***************************************************************************)
(* Model of gtda/mapper/nerve.py: the Nerve transformer, which builds the  *)
(* Mapper graph (1-skeleton of the nerve) of a refined cover, with the     *)
(* optional contraction of nested nodes.                                   *)
(*                                                                         *)
(* Python lists are modelled with their 0-based indices: a list of length  *)
(* n is a function with domain 0..n-1, except the lists that are only      *)
(* appended to and zipped (node_index_pairs, weights, intersections, the   *)
(* edge list of the graph), which are TLA+ sequences in append order.      *)
(* node_elements arrays are duplicate-free index arrays and are modelled   *)
(* as sets: len() is Cardinality and np.intersect1d is set intersection.   *)
(***************************************************************************)
EXTENDS Integers, Sequences, FiniteSets, TLC

\* ------------------------------------------------------------------ bounds
MaxNodes == 3
MaxElem == 3
MaxLabel == 1
MaxMinIntersection == 3
MaxCalls == 2
MaxMappingLen == 4

Elements == 1..MaxElem
Labels == 0..MaxLabel
None == "None"

VARIABLES
    min_intersection,       \* self.min_intersection
    store_edge_elements,    \* self.store_edge_elements
    contract_nodes,         \* self.contract_nodes
    pc,                     \* position inside fit_transform
    X,                      \* the cover passed to fit_transform
    node_elements,          \* local of fit_transform: third component of zip(*nodes)
    node_tuples,            \* the combinations iterator: the pairs still to visit
    node_index_pairs,       \* locals of _generate_edge_data
    weights,
    intersections,
    mapping,
    fixed_points_mapping,   \* local of fit_transform (contract_nodes only)
    graph,                  \* the igraph.Graph under construction / returned
    graph_,                 \* self.graph_: <<>> while unset, <<g>> once fit stored g
    calls                   \* the completed calls of fit / fit_transform, in order

vars == <<min_intersection, store_edge_elements, contract_nodes, pc, X,
          node_elements, node_tuples, node_index_pairs, weights,
          intersections, mapping, fixed_points_mapping, graph, graph_, calls>>

\* ------------------------------------------------------------ list helpers
Len0(f) == Cardinality(DOMAIN f)

\* a TLA+ sequence as a 0-based list
List0(s) == [i \in 0..(Len(s) - 1) |-> s[i + 1]]

Min(S) == CHOOSE x \in S : \A y \in S : x <= y
Max(S) == CHOOSE x \in S : \A y \in S : x >= y

\* reduce(iconcat, X, []): the groups of the cover concatenated in order
\* reduce(iconcat, X, []) prepending instead of appending: the groups end
\* up in reverse order
RECURSIVE Flatten_reversed(_)
Flatten_reversed(groups) ==
    IF groups = <<>> THEN <<>>
    ELSE Flatten_reversed(Tail(groups)) \o Head(groups)

RECURSIVE Flatten(_)
Flatten(groups) ==
    IF groups = <<>> THEN <<>> ELSE Head(groups) \o Flatten(Tail(groups))

\* reduce(iconcat, X) without the initial list: the accumulator is X[0]
\* itself, which iconcat extends in place
reduce_iconcat_noinit(groups) ==
    [nodes  |-> Flatten(groups),
     groups |-> IF groups = <<>> THEN groups
                ELSE [groups EXCEPT ![1] = Flatten(groups)]]

\* nodes = reduce(iconcat, X, []): the flattened list and the cover as the
\* call leaves it.  iconcat extends its left argument in place; that is the
\* fresh list [] and the lists it grows into, so no group of X is touched.
reduce_iconcat(groups) ==
    [nodes  |-> Flatten(groups),
     groups |-> groups]

\* itertools.combinations(enumerate(node_elements), 2): the pairs
\* ((i, elements_i), (j, elements_j)), i < j, in lexicographic order
RECURSIVE CombinationsFrom(_, _, _)
CombinationsFrom(elems, i, j) ==
    LET n == Len0(elems) IN
    IF i >= n - 1 THEN <<>>
    ELSE IF j >= n THEN CombinationsFrom(elems, i + 1, i + 2)
    ELSE << << <<i, elems[i]>>, <<j, elems[j]>> >> >>
         \o CombinationsFrom(elems, i, j + 1)

combinations(elems) == CombinationsFrom(elems, 0, 1)

\* np.intersect1d on duplicate-free index arrays
intersect1d(a, b) == a \cap b

\* ------------------------------------------------- Nerve._generate_edge_data
\* The scan state: the three result lists and the contraction mapping.
ScanInit(self, elems) ==
    [node_index_pairs |-> <<>>,
     weights          |-> <<>>,
     intersections    |-> <<>>,
     mapping          |-> IF self.contract_nodes
                          THEN [i \in 0..(Len0(elems) - 1) |-> i]
                          ELSE None]

\* the two containment tests with their assignments exchanged
BranchNoStore_crossed(self, intersection_size, len_1, len_2) ==
    IF self.contract_nodes
    THEN IF intersection_size = len_2 THEN "map_1_to_2"
         ELSE IF intersection_size = len_1 THEN "map_2_to_1"
         ELSE IF intersection_size >= self.min_intersection THEN "edge"
         ELSE "skip"
    ELSE IF intersection_size >= self.min_intersection THEN "edge"
         ELSE "skip"

\* BranchNoStore checking containment in one direction only (the elif on
\* len(node_1_elements) is missing)
BranchNoStore_oneway(self, intersection_size, len_1, len_2) ==
    IF self.contract_nodes
    THEN IF intersection_size = len_2 THEN "map_2_to_1"
         ELSE IF intersection_size >= self.min_intersection THEN "edge"
         ELSE "skip"
    ELSE IF intersection_size >= self.min_intersection THEN "edge"
         ELSE "skip"

\* BranchNoStore testing the threshold before the containments
BranchNoStore_edgefirst(self, intersection_size, len_1, len_2) ==
    IF self.contract_nodes
    THEN IF intersection_size >= self.min_intersection THEN "edge"
         ELSE IF intersection_size = len_2 THEN "map_2_to_1"
         ELSE IF intersection_size = len_1 THEN "map_1_to_2"
         ELSE "skip"
    ELSE IF intersection_size >= self.min_intersection THEN "edge"
         ELSE "skip"

\* BranchNoStore with the two containment tests in the other order
BranchNoStore_swapped(self, intersection_size, len_1, len_2) ==
    IF self.contract_nodes
    THEN IF intersection_size = len_1 THEN "map_1_to_2"
         ELSE IF intersection_size = len_2 THEN "map_2_to_1"
         ELSE IF intersection_size >= self.min_intersection THEN "edge"
         ELSE "skip"
    ELSE IF intersection_size >= self.min_intersection THEN "edge"
         ELSE "skip"

\* BranchNoStore with the threshold comparison reversed (<= for >=)
BranchNoStore_reversed(self, intersection_size, len_1, len_2) ==
    IF self.contract_nodes
    THEN IF intersection_size = len_2 THEN "map_2_to_1"
         ELSE IF intersection_size = len_1 THEN "map_1_to_2"
         ELSE IF intersection_size <= self.min_intersection THEN "edge"
         ELSE "skip"
    ELSE IF intersection_size <= self.min_intersection THEN "edge"
         ELSE "skip"

\* BranchNoStore with the threshold test off by one (> for >=)
BranchNoStore_strict(self, intersection_size, len_1, len_2) ==
    IF self.contract_nodes
    THEN IF intersection_size = len_2 THEN "map_2_to_1"
         ELSE IF intersection_size = len_1 THEN "map_1_to_2"
         ELSE IF intersection_size > self.min_intersection THEN "edge"
         ELSE "skip"
    ELSE IF intersection_size > self.min_intersection THEN "edge"
         ELSE "skip"

\* The if/elif chain of the first loop (store_edge_elements is false) on one
\* pair, given the intersection size and the lengths of the two arrays:
\* which of its branches runs.
BranchNoStore(self, intersection_size, len_1, len_2) ==
    IF self.contract_nodes
    THEN IF intersection_size = len_2 THEN "map_2_to_1"
         ELSE IF intersection_size = len_1 THEN "map_1_to_2"
         ELSE IF intersection_size >= self.min_intersection THEN "edge"
         ELSE "skip"
    ELSE IF intersection_size >= self.min_intersection THEN "edge"
         ELSE "skip"

\* One iteration of the first loop.
LoopBodyNoStore(self, st, t) ==
    LET node_1_idx        == t[1][1]
        node_1_elements   == t[1][2]
        node_2_idx        == t[2][1]
        node_2_elements   == t[2][2]
        intersection      == intersect1d(node_1_elements, node_2_elements)
        intersection_size == Cardinality(intersection)
        branch == BranchNoStore(self, intersection_size,
                                Cardinality(node_1_elements),
                                Cardinality(node_2_elements))
    IN  CASE branch = "map_2_to_1" ->
                [st EXCEPT !.mapping[node_2_idx] = node_1_idx]
          [] branch = "map_1_to_2" ->
                [st EXCEPT !.mapping[node_1_idx] = node_2_idx]
          [] branch = "edge" ->
                [st EXCEPT
                    !.node_index_pairs = Append(@, <<node_1_idx, node_2_idx>>),
                    !.weights          = Append(@, intersection_size)]
          [] OTHER -> st

\* The if/elif chain of the second loop (store_edge_elements is true).
BranchStore(self, intersection_size, len_1, len_2) ==
    IF self.contract_nodes
    THEN IF intersection_size = len_2 THEN "map_2_to_1"
         ELSE IF intersection_size = len_1 THEN "map_1_to_2"
         ELSE IF intersection_size >= self.min_intersection THEN "edge"
         ELSE "skip"
    ELSE IF intersection_size >= self.min_intersection THEN "edge"
         ELSE "skip"

\* One iteration of the second loop.
LoopBodyStore(self, st, t) ==
    LET node_1_idx        == t[1][1]
        node_1_elements   == t[1][2]
        node_2_idx        == t[2][1]
        node_2_elements   == t[2][2]
        intersection      == intersect1d(node_1_elements, node_2_elements)
        intersection_size == Cardinality(intersection)
        branch == BranchStore(self, intersection_size,
                              Cardinality(node_1_elements),
                              Cardinality(node_2_elements))
    IN  CASE branch = "map_2_to_1" ->
                [st EXCEPT !.mapping[node_2_idx] = node_1_idx]
          [] branch = "map_1_to_2" ->
                [st EXCEPT !.mapping[node_1_idx] = node_2_idx]
          [] branch = "edge" ->
                [st EXCEPT
                    !.node_index_pairs = Append(@, <<node_1_idx, node_2_idx>>),
                    !.weights          = Append(@, intersection_size),
                    !.intersections    = Append(@, intersection)]
          [] OTHER -> st

\* The loop selected once by store_edge_elements, applied to one pair.
LoopBody(self, st, t) ==
    IF ~self.store_edge_elements
    THEN LoopBodyNoStore(self, st, t)
    ELSE LoopBodyStore(self, st, t)

RECURSIVE ScanFrom(_, _, _)
ScanFrom(self, st, tuples) ==
    IF tuples = <<>> THEN st
    ELSE ScanFrom(self, LoopBody(self, st, Head(tuples)), Tail(tuples))

\* The whole of _generate_edge_data as a function of its inputs.
_generate_edge_data(self, elems) ==
    ScanFrom(self, ScanInit(self, elems), combinations(elems))
\* ------------------------------------------------------------ _fixed_points
\* The while loop of _fixed_points from the state (j, k).  After the first
\* iteration k is mapping[mapping[j]], so the loop's future is a function of j
\* alone: if it has not exited after len(mapping) + 1 iterations it never
\* does.  `fuel` counts the iterations left; Diverges marks a loop that
\* never exits.
Diverges == -1

RECURSIVE WhileLoop(_, _, _, _)
WhileLoop(m, j, k, fuel) ==
    IF j = k THEN j
    ELSE IF fuel = 0 THEN Diverges
    ELSE LET j2 == m[j]
         IN  WhileLoop(m, j2, m[m[j2]], fuel - 1)

\* _fixed_points without the while loop: one step of the mapping
_fixed_points_onestep(m) ==
    [i \in DOMAIN m |-> m[i]]

\* _fixed_points appending i instead of j: no vertex is resolved
_fixed_points_unresolved(m) ==
    [i \in DOMAIN m |-> i]

_fixed_points(m) ==
    [i \in DOMAIN m |-> WhileLoop(m, i, m[i], Len0(m) + 1)]

\* ------------------------------------------------------------ igraph.Graph
\* A graph: vcount vertices 0..vcount-1, one list per vertex attribute, the
\* edge list in insertion order and one list per edge attribute.

\* ig.Graph(n): n vertices, no attributes, no edges
Graph(n) ==
    [vcount |-> n,
     vs     |-> [x \in {} |-> <<>>],
     edges  |-> <<>>,
     es     |-> [x \in {} |-> <<>>]]

\* ig.Graph(n) followed by the three graph.vs[...] assignments
GraphWithVertices(nodes) ==
    [vcount |-> Len0(nodes),
     vs     |-> [pullback_set_label    |-> [i \in DOMAIN nodes |-> nodes[i][1]],
                 partial_cluster_label |-> [i \in DOMAIN nodes |-> nodes[i][2]],
                 node_elements         |-> [i \in DOMAIN nodes |-> nodes[i][3]]],
     edges  |-> <<>>,
     es     |-> [x \in {} |-> <<>>]]

\* graph.es["weight"] = 1; graph.add_edges(pairs); graph.es["weight"] = w;
\* and, only when store_edge_elements, graph.es["edge_elements"] = inter
WithEdges(g, pairs, w, inter, store) ==
    [g EXCEPT !.edges = pairs,
              !.es    = IF store
                        THEN [weight |-> w, edge_elements |-> inter]
                        ELSE [weight |-> w]]

\* the elements of sequence s whose positions are in keep, in order
RECURSIVE SelectAt(_, _, _)
SelectAt(s, keep, from) ==
    IF from > Len(s) THEN <<>>
    ELSE (IF from \in keep THEN <<s[from]>> ELSE <<>>)
         \o SelectAt(s, keep, from + 1)

\* contract_vertices combining with "last" instead of "first"
contract_vertices_last(g, m) ==
    LET ends   == {m[g.edges[e][1]] : e \in 1..Len(g.edges)}
                  \cup {m[g.edges[e][2]] : e \in 1..Len(g.edges)}
        last   == Max({m[i] : i \in DOMAIN m} \cup ends)
        merges == [t \in 0..last |-> {i \in DOMAIN m : m[i] = t}]
    IN  [g EXCEPT
            !.vcount = last + 1,
            !.vs     = [a \in DOMAIN g.vs |->
                          [t \in 0..last |->
                              IF merges[t] = {} THEN None
                              ELSE g.vs[a][Max(merges[t])]]],
            !.edges  = [e \in 1..Len(g.edges) |->
                          <<m[g.edges[e][1]], m[g.edges[e][2]]>>]]

\* Graph.contract_vertices(m, combine_attrs="first"): vertex i goes to m[i];
\* the result has max(m) + 1 vertices; every edge keeps its attributes and
\* gets its endpoints mapped (loops and multi-edges are not removed); a new
\* vertex takes each attribute from the first (lowest-index) old vertex
\* mapped to it, and None when no vertex is mapped to it.
contract_vertices(g, m) ==
    LET ends   == {m[g.edges[e][1]] : e \in 1..Len(g.edges)}
                  \cup {m[g.edges[e][2]] : e \in 1..Len(g.edges)}
        last   == Max({m[i] : i \in DOMAIN m} \cup ends)
        merges == [t \in 0..last |-> {i \in DOMAIN m : m[i] = t}]
    IN  [g EXCEPT
            !.vcount = last + 1,
            !.vs     = [a \in DOMAIN g.vs |->
                          [t \in 0..last |->
                              IF merges[t] = {} THEN None
                              ELSE g.vs[a][Min(merges[t])]]],
            !.edges  = [e \in 1..Len(g.edges) |->
                          <<m[g.edges[e][1]], m[g.edges[e][2]]>>]]

\* Graph.delete_vertices(del): the vertices in del go away with their
\* incident edges; the others are re-indexed contiguously in their order.
delete_vertices(g, del) ==
    LET kept     == {i \in 0..(g.vcount - 1) : i \notin del}
        newIdx   == [i \in kept |-> Cardinality({k \in kept : k < i})]
        oldIdx   == [n \in 0..(Cardinality(kept) - 1) |->
                        CHOOSE i \in kept : newIdx[i] = n]
        keptE    == {e \in 1..Len(g.edges) :
                        g.edges[e][1] \in kept /\ g.edges[e][2] \in kept}
        oldEdges == SelectAt(g.edges, keptE, 1)
    IN  [vcount |-> Cardinality(kept),
         vs     |-> [a \in DOMAIN g.vs |->
                        [n \in 0..(Cardinality(kept) - 1) |-> g.vs[a][oldIdx[n]]]],
         edges  |-> [e \in 1..Len(oldEdges) |->
                        <<newIdx[oldEdges[e][1]], newIdx[oldEdges[e][2]]>>],
         es     |-> [a \in DOMAIN g.es |-> SelectAt(g.es[a], keptE, 1)]]

\* [i for i in graph.vs.indices if i != fixed_points_mapping[i]]
NonFixedIndices(g, fpm) ==
    {i \in 0..(g.vcount - 1) : i /= fpm[i]}
\* ---------------------------------------------------------------- inputs
\* (pullback_set_label, partial_cluster_label) pairs; a cover lists its
\* nodes with distinct label pairs in increasing order.
LabelPairs == Labels \X Labels

LabelLess(a, b) == a[1] < b[1] \/ (a[1] = b[1] /\ a[2] < b[2])

\* the triples t[1..n] cut into consecutive groups after the positions in cuts
RECURSIVE Groups(_, _, _, _)
Groups(t, cuts, from, cur) ==
    IF from > Len(t) THEN (IF cur = <<>> THEN <<>> ELSE <<cur>>)
    ELSE IF from \in cuts
         THEN <<Append(cur, t[from])>> \o Groups(t, cuts, from + 1, <<>>)
         ELSE Groups(t, cuts, from + 1, Append(cur, t[from]))

\* node_elements of a node: a non-empty set of element indices
NodeElementSets == (SUBSET Elements) \ {{}}

\* the covers of at most MaxNodes nodes: a list of non-empty groups of
\* triples (pullback_set_label, partial_cluster_label, node_elements)
Covers ==
    UNION {
        { Groups([k \in 1..n |-> <<labs[k][1], labs[k][2], sets[k]>>], cuts, 1, <<>>) :
            <<labs, sets, cuts>> \in
                { c \in [1..n -> LabelPairs] :
                    \A k \in 1..(n - 1) : LabelLess(c[k], c[k + 1]) }
                \X [1..n -> NodeElementSets]
                \X SUBSET (1..(n - 1)) }
        : n \in 0..MaxNodes }

\* the two covers of the documented scenarios
ScenarioChain ==
    << << <<0, 0, {1, 2, 3}>> >>,
       << <<0, 1, {3, 4, 5}>> >>,
       << <<1, 0, {5, 6, 7}>> >> >>

ScenarioNested ==
    << << <<0, 0, {1, 2}>> >>,
       << <<0, 1, {1, 2, 3}>> >> >>

Inputs == Covers \cup {ScenarioChain, ScenarioNested}

\* ----------------------------------------------------------- the estimator
Self ==
    [min_intersection    |-> min_intersection,
     store_edge_elements |-> store_edge_elements,
     contract_nodes      |-> contract_nodes]

ScanState ==
    [node_index_pairs |-> node_index_pairs,
     weights          |-> weights,
     intersections    |-> intersections,
     mapping          |-> mapping]

\* Nerve.__init__: the three parameters are stored as given; nothing else
\* exists yet.  min_intersection ranges over its documented domain, the
\* positive integers.
Init ==
    /\ min_intersection \in 1..MaxMinIntersection
    /\ store_edge_elements \in BOOLEAN
    /\ contract_nodes \in BOOLEAN
    /\ pc = "idle"
    /\ X = None
    /\ node_elements = None
    /\ node_tuples = None
    /\ node_index_pairs = None
    /\ weights = None
    /\ intersections = None
    /\ mapping = None
    /\ fixed_points_mapping = None
    /\ graph = None
    /\ graph_ = <<>>
    /\ calls = <<>>

\* fit_transform(X) up to the first loop test of _generate_edge_data: the
\* cover is flattened, the vertices get their attributes and the scan locals
\* are initialised.  On an empty cover the graph of 0 vertices is built, then
\* zip(*nodes) is empty and the first next(node_attributes) raises
\* StopIteration.
fit_transform_begin ==
    /\ pc = "idle"
    /\ \E cover \in Inputs :
        LET flat  == reduce_iconcat(cover)
            nodes == List0(flat.nodes)
            elems == [i \in DOMAIN nodes |-> nodes[i][3]]
            st    == ScanInit(Self, elems)
        IN  /\ X' = flat.groups
            /\ IF Len0(nodes) = 0
               THEN /\ pc' = "StopIteration"
                    /\ graph' = Graph(0)
                    /\ UNCHANGED <<node_elements, node_tuples, node_index_pairs,
                                   weights, intersections, mapping>>
               ELSE /\ pc' = "scan"
                    /\ node_elements' = elems
                    /\ graph' = GraphWithVertices(nodes)
                    /\ node_tuples' = combinations(elems)
                    /\ node_index_pairs' = st.node_index_pairs
                    /\ weights' = st.weights
                    /\ intersections' = st.intersections
                    /\ mapping' = st.mapping
    /\ UNCHANGED <<min_intersection, store_edge_elements, contract_nodes,
                   fixed_points_mapping, graph_, calls>>

\* one iteration of the scan loop of _generate_edge_data
scan_pair ==
    /\ pc = "scan"
    /\ node_tuples /= <<>>
    /\ LET st == LoopBody(Self, ScanState, Head(node_tuples))
       IN  /\ node_index_pairs' = st.node_index_pairs
           /\ weights' = st.weights
           /\ intersections' = st.intersections
           /\ mapping' = st.mapping
    /\ node_tuples' = Tail(node_tuples)
    /\ UNCHANGED <<min_intersection, store_edge_elements, contract_nodes, pc, X,
                   node_elements, fixed_points_mapping, graph, graph_, calls>>

\* the scan is over: _generate_edge_data returns and fit_transform adds the
\* edges and their attributes; without contract_nodes the graph is returned
add_edges ==
    /\ pc = "scan"
    /\ node_tuples = <<>>
    /\ graph' = WithEdges(graph, node_index_pairs, weights, intersections,
                          store_edge_elements)
    /\ pc' = IF contract_nodes THEN "contract" ELSE "done"
    /\ UNCHANGED <<min_intersection, store_edge_elements, contract_nodes, X,
                   node_elements, node_tuples, node_index_pairs, weights,
                   intersections, mapping, fixed_points_mapping, graph_, calls>>

\* fixed_points_mapping = _fixed_points(mapping), then
\* graph.contract_vertices(fixed_points_mapping, combine_attrs="first");
\* a walk that never ends leaves fit_transform inside _fixed_points
contract ==
    /\ pc = "contract"
    /\ LET fpm == _fixed_points(mapping)
       IN  IF \E i \in DOMAIN fpm : fpm[i] = Diverges
           THEN /\ pc' = "diverged"
                /\ UNCHANGED <<fixed_points_mapping, graph>>
           ELSE /\ pc' = "delete"
                /\ fixed_points_mapping' = fpm
                /\ graph' = contract_vertices(graph, fpm)
    /\ UNCHANGED <<min_intersection, store_edge_elements, contract_nodes, X,
                   node_elements, node_tuples, node_index_pairs, weights,
                   intersections, mapping, graph_, calls>>

\* graph.delete_vertices of the indices that are not their own fixed point,
\* then the graph is returned
delete ==
    /\ pc = "delete"
    /\ graph' = delete_vertices(graph, NonFixedIndices(graph, fixed_points_mapping))
    /\ pc' = "done"
    /\ UNCHANGED <<min_intersection, store_edge_elements, contract_nodes, X,
                   node_elements, node_tuples, node_index_pairs, weights,
                   intersections, mapping, fixed_points_mapping, graph_, calls>>

Next ==
    \/ fit_transform_begin
    \/ scan_pair
    \/ add_edges
    \/ contract
    \/ delete

Spec == Init /\ [][Next]_vars
\* ------------------------------------------------------------- properties
\* The cover as the caller sees it: its triples in flattening order.
CoverNodes == List0(Flatten(X))
NumNodes == Len0(CoverNodes)
Indices == 0..(NumNodes - 1)
ElementsOf(i) == CoverNodes[i][3]
Shared(i, j) == Cardinality(ElementsOf(i) \cap ElementsOf(j))

Returned == pc = "done"
EdgeIds == 1..Len(graph.edges)
Joins(e, i, j) == {graph.edges[e][1], graph.edges[e][2]} = {i, j}

\* C1: without contract_nodes the returned graph has one vertex per cover
\* triple, an edge between i < j exactly when the two element sets share at
\* least min_intersection elements, and every such edge weighs the number of
\* shared elements; on the documented chain cover with min_intersection = 1
\* that is 3 vertices, edges (0,1) and (1,2) of weight 1 and no edge (0,2).
C1_EdgesAreThresholdedIntersections ==
    (Returned /\ ~contract_nodes) =>
        /\ graph.vcount = NumNodes
        /\ \A i, j \in Indices :
              i < j =>
                /\ (\E e \in EdgeIds : Joins(e, i, j))
                      <=> (Shared(i, j) >= min_intersection)
                /\ \A e \in EdgeIds :
                      Joins(e, i, j) => graph.es.weight[e] = Shared(i, j)
        /\ (X = ScenarioChain /\ min_intersection = 1) =>
              /\ graph.vcount = 3
              /\ graph.edges = << <<0, 1>>, <<1, 2>> >>
              /\ graph.es.weight = <<1, 1>>

C1_Witness ==
    /\ Returned
    /\ ~contract_nodes
    /\ X = ScenarioChain
    /\ min_intersection = 1
    /\ Len(graph.edges) = 2

\* C2: every returned graph has no self-loop and at most one edge per
\* unordered pair of vertices.
C2_SimpleGraph ==
    Returned =>
        /\ \A e \in EdgeIds : graph.edges[e][1] /= graph.edges[e][2]
        /\ \A e1, e2 \in EdgeIds :
              e1 /= e2 =>
                {graph.edges[e1][1], graph.edges[e1][2]}
                    /= {graph.edges[e2][1], graph.edges[e2][2]}

\* C3: in every returned graph each edge's weight is the size of the
\* intersection of the node_elements attributes of the two vertices it joins,
\* and is at least min_intersection.
C3_WeightIsIntersectionOfEndpoints ==
    Returned =>
        \A e \in EdgeIds :
            /\ graph.es.weight[e] =
                  Cardinality(graph.vs.node_elements[graph.edges[e][1]]
                              \cap graph.vs.node_elements[graph.edges[e][2]])
            /\ graph.es.weight[e] >= min_intersection
\* b's element set is contained in a's: strictly, or equal with a first
Contained(b, a) ==
    /\ a /= b
    /\ ElementsOf(b) \subseteq ElementsOf(a)
    /\ (ElementsOf(b) /= ElementsOf(a) \/ a < b)

Redundant(b) == \E a \in Indices : Contained(b, a)

\* Between contract_vertices and delete_vertices: the input vertices that
\* delete_vertices is about to keep.
Surviving ==
    (0..(graph.vcount - 1)) \ NonFixedIndices(graph, fixed_points_mapping)

\* C4: with contract_nodes a vertex whose element set is contained in
\* another vertex's (strictly, or equal with the other one first) is not kept
\* as a vertex, every other vertex is kept, and the returned graph has one
\* vertex per kept vertex.
C4_ContainedVerticesAreContracted ==
    /\ (pc = "delete") =>
          \A b \in Indices : (b \in Surviving) <=> ~Redundant(b)
    /\ (Returned /\ contract_nodes) =>
          graph.vcount = Cardinality({b \in Indices : ~Redundant(b)})

C4_Witness ==
    /\ Returned
    /\ contract_nodes
    /\ NumNodes = 3
    /\ graph.vcount = 2
    /\ ElementsOf(0) /= ElementsOf(1)
    /\ Contained(0, 1)
    /\ ~Redundant(2)

\* C5: on the documented nested cover with contract_nodes, mapping[0] = 1
\* and the returned graph has exactly one vertex, carrying the attributes of
\* input vertex 1, and no edges.
C5_NestedScenarioKeepsVertexOne ==
    (Returned /\ contract_nodes /\ X = ScenarioNested) =>
        /\ mapping[0] = 1
        /\ graph.vcount = 1
        /\ graph.vs.pullback_set_label[0] = 0
        /\ graph.vs.partial_cluster_label[0] = 1
        /\ graph.vs.node_elements[0] = {1, 2, 3}
        /\ graph.edges = <<>>

\* the input vertices resolved to fixed point p
ClassOf(p) == {i \in Indices : fixed_points_mapping[i] = p}

\* the fixed points of the resolved mapping, and the n-th of them (from 0)
ResolvedFixedPoints == {p \in Indices : fixed_points_mapping[p] = p}

NthFixedPoint(n) ==
    CHOOSE p \in ResolvedFixedPoints :
        Cardinality({q \in ResolvedFixedPoints : q < p}) = n

\* C6: with contract_nodes every vertex of the returned graph carries the
\* three attributes of one input vertex, the lowest-index one among the input
\* vertices resolved to the same fixed point.
C6_FirstVertexAttributesKept ==
    (Returned /\ contract_nodes) =>
        /\ graph.vcount = Cardinality(ResolvedFixedPoints)
        /\ \A n \in 0..(graph.vcount - 1) :
              LET first == Min(ClassOf(NthFixedPoint(n)))
              IN  /\ graph.vs.pullback_set_label[n] = CoverNodes[first][1]
                  /\ graph.vs.partial_cluster_label[n] = CoverNodes[first][2]
                  /\ graph.vs.node_elements[n] = CoverNodes[first][3]

C6_Witness ==
    /\ Returned
    /\ contract_nodes
    /\ \E n \in 0..(graph.vcount - 1) :
          /\ Cardinality(ClassOf(NthFixedPoint(n))) = 3
          /\ Min(ClassOf(NthFixedPoint(n))) /= NthFixedPoint(n)
          /\ Max(ClassOf(NthFixedPoint(n))) /= NthFixedPoint(n)

\* C7: with contract_nodes the vertices kept are exactly the fixed points of
\* the mapping built by the scan, so the returned graph has as many vertices
\* as the mapping has fixed points: at least one and at most the number of
\* cover elements.
C7_VerticesAreFixedPoints ==
    /\ (pc = "delete") =>
          Surviving = {p \in Indices : mapping[p] = p}
    /\ (Returned /\ contract_nodes) =>
          /\ graph.vcount = Cardinality({p \in Indices : mapping[p] = p})
          /\ graph.vcount <= NumNodes
          /\ graph.vcount >= 1

C7_Witness ==
    /\ Returned
    /\ contract_nodes
    /\ NumNodes = 3
    /\ graph.vcount = 1
    /\ mapping[2] = 1
    /\ mapping[1] = 0
\* The scan has started: its locals exist.
Scanning == pc \in {"scan", "contract", "delete", "done"}

\* the index pairs (i, j) the scan loop has not reached yet, and the number
\* of pairs it has gone through
Pending ==
    {<<node_tuples[k][1][1], node_tuples[k][2][1]>> : k \in 1..Len(node_tuples)}

NumVisited == Len(combinations(node_elements)) - Len(node_tuples)

PairIds == 1..Len(node_index_pairs)

Nested(i, j) ==
    \/ ElementsOf(i) \subseteq ElementsOf(j)
    \/ ElementsOf(j) \subseteq ElementsOf(i)

\* C8: with contract_nodes, at every point of the scan a pair i < j already
\* visited has contributed an edge exactly when its intersection size is at
\* least min_intersection and neither element set is contained in the other;
\* it has contributed it once, with the intersection size as weight.
C8_EdgeIffLargeIntersectionAndNotNested ==
    (Scanning /\ contract_nodes) =>
        /\ Len(weights) = Len(node_index_pairs)
        /\ \A i, j \in Indices :
              (i < j /\ <<i, j>> \notin Pending) =>
                /\ (\E k \in PairIds : node_index_pairs[k] = <<i, j>>)
                      <=> (Shared(i, j) >= min_intersection /\ ~Nested(i, j))
                /\ \A k \in PairIds :
                      node_index_pairs[k] = <<i, j>> =>
                        /\ weights[k] = Shared(i, j)
                        /\ \A l \in PairIds :
                              node_index_pairs[l] = <<i, j>> => l = k
        /\ \A k \in PairIds :
              /\ node_index_pairs[k][1] < node_index_pairs[k][2]
              /\ node_index_pairs[k] \notin Pending

C8_Witness ==
    /\ pc = "scan"
    /\ contract_nodes
    /\ node_tuples = <<>>
    /\ min_intersection = 1
    /\ NumNodes = 3
    /\ node_index_pairs = << <<0, 2>> >>
    /\ Shared(0, 1) >= 1
    /\ Nested(0, 1)
    /\ Shared(1, 2) = 0

\* the pair the scan loop visited last
LastVisited ==
    LET t == combinations(node_elements)[NumVisited]
    IN  <<t[1][1], t[2][1]>>

SameElements(i, j) == i < j /\ ElementsOf(i) = ElementsOf(j)

\* C9 as stated: when i < j have identical element sets the scan records
\* mapping[j] = i, never mapping[i] = j, and exactly one of the two is kept
\* in the returned graph.
C9_ExactlyOneDuplicateSurvives ==
    /\ (pc = "scan" /\ contract_nodes /\ NumVisited >= 1) =>
          (SameElements(LastVisited[1], LastVisited[2])
              => mapping[LastVisited[2]] = LastVisited[1])
    /\ (Scanning /\ contract_nodes) =>
          \A i, j \in Indices : SameElements(i, j) => mapping[i] /= j
    /\ (pc = "delete") =>
          \A i, j \in Indices :
              SameElements(i, j) =>
                Cardinality({i, j} \cap Surviving) = 1

\* C9 as amended: when i < j have identical element sets the scan records
\* mapping[j] = i at that pair and never mapping[i] = j; j is never kept, and
\* i is kept unless its element set is itself contained in a third vertex's
\* (a strict superset, or an equal set of lower index), in which case neither
\* of the two is kept.
C9_HigherDuplicateNeverSurvives ==
    /\ (pc = "scan" /\ contract_nodes /\ NumVisited >= 1) =>
          (SameElements(LastVisited[1], LastVisited[2])
              => mapping[LastVisited[2]] = LastVisited[1])
    /\ (Scanning /\ contract_nodes) =>
          \A i, j \in Indices : SameElements(i, j) => mapping[i] /= j
    /\ (pc = "delete") =>
          \A i, j \in Indices :
              SameElements(i, j) =>
                /\ j \notin Surviving
                /\ (i \in Surviving) <=>
                      ~\E a \in Indices \ {i, j} : Contained(i, a)

C9_Witness ==
    /\ pc = "delete"
    /\ NumNodes = 3
    /\ SameElements(0, 1)
    /\ Contained(0, 2)
    /\ Surviving = {2}

\* the edges (pair and weight) in the result of a scan
ScanEdges(r) ==
    {<<r.node_index_pairs[k], r.weights[k]>> : k \in 1..Len(r.node_index_pairs)}

GraphEdges == {<<graph.edges[e], graph.es.weight[e]>> : e \in EdgeIds}

\* C10: without contract_nodes, the edges (pairs with their weights) that
\* the same cover gives under any larger threshold are among the edges of
\* the returned graph, and are no more numerous.
C10_EdgesShrinkWithThreshold ==
    (Returned /\ ~contract_nodes) =>
        \A m2 \in min_intersection..MaxMinIntersection :
            LET r == _generate_edge_data(
                         [Self EXCEPT !.min_intersection = m2], node_elements)
            IN  /\ ScanEdges(r) \subseteq GraphEdges
                /\ Len(r.node_index_pairs) <= Len(graph.edges)

C10_Witness ==
    /\ Returned
    /\ ~contract_nodes
    /\ min_intersection = 1
    /\ Len(graph.edges) = 3
    /\ Len(_generate_edge_data(
               [Self EXCEPT !.min_intersection = 2], node_elements).weights) = 1
    /\ Len(_generate_edge_data(
               [Self EXCEPT !.min_intersection = 3], node_elements).weights) = 0
\* ------------------------------------------------- whole calls of the API
\* Nerve.fit_transform(X) as one step: what the call leaves behind.  `raises`
\* is "" on a normal return, `graph` holds the returned graph (<<>> when the
\* call raises), `X` is the cover and `self` the estimator after the call.
fit_transform(self, cover) ==
    LET flat  == reduce_iconcat(cover)
        nodes == List0(flat.nodes)
        elems == [i \in DOMAIN nodes |-> nodes[i][3]]
        data  == _generate_edge_data(self, elems)
        g     == WithEdges(GraphWithVertices(nodes), data.node_index_pairs,
                           data.weights, data.intersections,
                           self.store_edge_elements)
        fpm   == _fixed_points(data.mapping)
        gc    == contract_vertices(g, fpm)
    IN  IF Len0(nodes) = 0
        THEN [raises |-> "StopIteration", graph |-> <<>>,
              X |-> flat.groups, self |-> self]
        ELSE IF ~self.contract_nodes
        THEN [raises |-> "", graph |-> <<g>>, X |-> flat.groups, self |-> self]
        ELSE IF \E i \in DOMAIN fpm : fpm[i] = Diverges
        THEN [raises |-> "diverged", graph |-> <<>>,
              X |-> flat.groups, self |-> self]
        ELSE [raises |-> "",
              graph  |-> <<delete_vertices(gc, NonFixedIndices(gc, fpm))>>,
              X |-> flat.groups, self |-> self]

\* The cover a call is made on: any cover for the first call, the caller's
\* cover object as the previous call left it for the later ones.
CallArguments == IF calls = <<>> THEN Inputs ELSE {X}

\* a caller invokes nerve.fit_transform(X)
fit_transform_call ==
    /\ Len(calls) < MaxCalls
    /\ pc /= "diverged"
    /\ \E cover \in CallArguments : \E r \in {fit_transform(Self, cover)} :
            /\ X' = r.X
            /\ min_intersection' = r.self.min_intersection
            /\ store_edge_elements' = r.self.store_edge_elements
            /\ contract_nodes' = r.self.contract_nodes
            /\ graph' = IF r.graph = <<>> THEN None ELSE r.graph[1]
            /\ pc' = IF r.raises = "" THEN "done" ELSE r.raises
            /\ calls' = Append(calls,
                   [method |-> "fit_transform", arg |-> cover, self |-> Self,
                    graph_before |-> graph_, graph_after |-> graph_,
                    raises |-> r.raises, returns |-> r.graph])
    /\ UNCHANGED <<graph_, node_elements, node_tuples, node_index_pairs,
                   weights, intersections, mapping, fixed_points_mapping>>

\* a caller invokes nerve.fit(X): self.graph_ = self.fit_transform(X, y=y);
\* return self.  When fit_transform raises, the assignment is not reached.
fit_call ==
    /\ Len(calls) < MaxCalls
    /\ pc /= "diverged"
    /\ \E cover \in CallArguments : \E r \in {fit_transform(Self, cover)} :
            /\ X' = r.X
            /\ min_intersection' = r.self.min_intersection
            /\ store_edge_elements' = r.self.store_edge_elements
            /\ contract_nodes' = r.self.contract_nodes
            /\ graph_' = IF r.raises = "" THEN r.graph ELSE graph_
            /\ pc' = IF r.raises = "" THEN "done" ELSE r.raises
            /\ calls' = Append(calls,
                   [method |-> "fit", arg |-> cover, self |-> Self,
                    graph_before |-> graph_,
                    graph_after |-> IF r.raises = "" THEN r.graph ELSE graph_,
                    raises |-> r.raises,
                    returns |-> IF r.raises = "" THEN <<"self">> ELSE <<>>])
    /\ UNCHANGED <<graph, node_elements, node_tuples, node_index_pairs,
                   weights, intersections, mapping, fixed_points_mapping>>

NextCalls ==
    \/ fit_transform_call
    \/ fit_call

SpecCalls == Init /\ [][NextCalls]_vars
\* The graph a completed call built: what fit_transform returned, what fit
\* stored.
Produced(c) == IF c.method = "fit" THEN c.graph_after ELSE c.returns

\* The cover and the estimator's parameters as call number k left them: the
\* next call is made on them, the current state holds them after the last.
CoverAfter(k) == IF k < Len(calls) THEN calls[k + 1].arg ELSE X
SelfAfter(k) == IF k < Len(calls) THEN calls[k + 1].self ELSE Self

\* C11: fit_transform is pure.  Every call leaves the cover and the three
\* parameters as they were; fit_transform does not touch graph_; two calls on
\* the same cover with the same options build the same graph (vertex
\* attributes, edges, edge attributes); fit stores that graph as graph_ and
\* returns the estimator.
C11_FitTransformIsPure ==
    /\ \A k \in DOMAIN calls :
        LET c == calls[k]
        IN  /\ CoverAfter(k) = c.arg
            /\ SelfAfter(k) = c.self
            /\ c.method = "fit_transform" => c.graph_after = c.graph_before
            /\ (c.method = "fit" /\ c.raises = "") =>
                   /\ c.returns = <<"self">>
                   /\ c.graph_after = fit_transform(c.self, c.arg).graph
            /\ (c.method = "fit" /\ c.raises /= "") =>
                   c.graph_after = c.graph_before
    /\ \A k1, k2 \in DOMAIN calls :
        (calls[k1].arg = calls[k2].arg /\ calls[k1].self = calls[k2].self) =>
            /\ calls[k1].raises = calls[k2].raises
            /\ Produced(calls[k1]) = Produced(calls[k2])
    /\ (calls /= <<>> /\ graph_ /= <<>>) =>
           \E k \in DOMAIN calls :
               calls[k].method = "fit" /\ graph_ = Produced(calls[k])

\* fit_transform then fit on a cover of two groups whose graph has an edge
C11_Witness ==
    /\ Len(calls) = 2
    /\ calls[1].method = "fit_transform"
    /\ calls[2].method = "fit"
    /\ calls[2].raises = ""
    /\ Len(calls[1].arg) = 2
    /\ graph_ /= <<>>
    /\ graph_[1].edges /= <<>>
    /\ calls[1].returns = graph_
\* ------------------------------------------ unvalidated constructor inputs
\* Nerve.__init__ stores min_intersection as given, without looking at it:
\* the estimator can be constructed with 0 or a negative threshold.
InitUnchecked ==
    /\ min_intersection \in (-1)..MaxMinIntersection
    /\ store_edge_elements \in BOOLEAN
    /\ contract_nodes \in BOOLEAN
    /\ pc = "idle"
    /\ X = None
    /\ node_elements = None
    /\ node_tuples = None
    /\ node_index_pairs = None
    /\ weights = None
    /\ intersections = None
    /\ mapping = None
    /\ fixed_points_mapping = None
    /\ graph = None
    /\ graph_ = <<>>
    /\ calls = <<>>

SpecUnchecked == InitUnchecked /\ [][Next]_vars

\* C12: a build with min_intersection <= 0 is rejected immediately: the call
\* never enters the pairwise scan or the steps after it, so no edge is
\* recorded and no graph is returned.
C12_NonPositiveMinIntersectionRejected ==
    min_intersection <= 0 =>
        pc \notin {"scan", "contract", "delete", "done"}
\* C13: a build on an empty cover fails as an input validation (ValueError)
\* before any graph is constructed: no graph object exists, none is returned
\* and none is stored in graph_.
C13_EmptyCoverIsValidationFailure ==
    (pc /= "idle" /\ Flatten(X) = <<>>) =>
        /\ pc = "ValueError"
        /\ graph = None
        /\ graph_ = <<>>
\* the estimator with the other value of store_edge_elements
OtherLoop == [Self EXCEPT !.store_edge_elements = ~store_edge_elements]

\* C14: store_edge_elements only adds data.  When the scan ends, its edge
\* list, weights and mapping are those the other loop computes on the same
\* node_elements; with store_edge_elements the k-th scanned edge (i, j) has
\* the set node_elements[i] \cap node_elements[j] as k-th intersection, of
\* cardinality weights[k], and the graph carries these sets as edge_elements;
\* without it no intersection is kept and the graph has no such attribute.
C14_StoreEdgeElementsOnlyAddsData ==
    /\ (pc = "scan" /\ node_tuples = <<>>) =>
          LET other == _generate_edge_data(OtherLoop, node_elements)
          IN  /\ node_index_pairs = other.node_index_pairs
              /\ weights = other.weights
              /\ mapping = other.mapping
    /\ (Scanning /\ store_edge_elements) =>
          /\ Len(intersections) = Len(node_index_pairs)
          /\ \A k \in PairIds :
                /\ intersections[k] = ElementsOf(node_index_pairs[k][1])
                                         \cap ElementsOf(node_index_pairs[k][2])
                /\ Cardinality(intersections[k]) = weights[k]
    /\ (Scanning /\ ~store_edge_elements) => intersections = <<>>
    /\ pc \in {"contract", "delete", "done"} =>
          /\ graph.es.weight = weights
          /\ IF store_edge_elements
             THEN graph.es.edge_elements = intersections
             ELSE DOMAIN graph.es = {"weight"}

\* the scan of a three-node cover ends with store_edge_elements and
\* contract_nodes: one contraction and one edge of weight 1 recorded
C14_Witness ==
    /\ pc = "scan"
    /\ node_tuples = <<>>
    /\ store_edge_elements
    /\ contract_nodes
    /\ NumNodes = 3
    /\ mapping[0] = 1
    /\ node_index_pairs = << <<1, 2>> >>
    /\ intersections = << {2} >>
\* the number of triples in the groups before group g of the cover
RECURSIVE GroupOffset(_, _)
GroupOffset(groups, g) ==
    IF g = 1 THEN 0 ELSE GroupOffset(groups, g - 1) + Len(groups[g - 1])

\* the three attributes of vertex k of the graph
VertexAttributes(g, k) ==
    <<g.vs.pullback_set_label[k], g.vs.partial_cluster_label[k],
      g.vs.node_elements[k]>>

\* Until contraction (and in the graph returned without it) there is one
\* vertex per triple, and the t-th triple of group g is the vertex whose
\* index is the number of triples before it in the cover.
InputOrder ==
    (pc \in {"scan", "contract"} \/ (Returned /\ ~contract_nodes)) =>
        /\ graph.vcount = GroupOffset(X, Len(X) + 1)
        /\ \A g \in DOMAIN X : \A t \in DOMAIN X[g] :
              VertexAttributes(graph, GroupOffset(X, g) + t - 1) = X[g][t]

\* delete_vertices keeps the surviving vertices in increasing order of their
\* indices, numbered from 0 without gaps: the n-th surviving vertex becomes
\* vertex n, with the attributes it had.
SurvivorsKeepOrder ==
    pc = "delete" =>
        /\ graph'.vcount = Cardinality(Surviving)
        /\ \A n \in 0..(graph'.vcount - 1) :
              LET old == CHOOSE p \in Surviving :
                             Cardinality({q \in Surviving : q < p}) = n
              IN  VertexAttributes(graph', n) = VertexAttributes(graph, old)

\* C15: vertex order follows the input.  Without contraction vertex k carries
\* the attributes of the k-th triple of the cover, groups taken in order;
\* with contraction the surviving vertices are re-indexed from 0 without gaps
\* in increasing order of their indices.
C15_VertexOrderFollowsInput ==
    []InputOrder /\ [][SurvivorsKeepOrder]_vars

\* a cover of two groups and three triples whose first vertex is contracted
\* away: vertices 1 and 2 are returned as vertices 0 and 1
C15_Witness ==
    /\ Returned
    /\ contract_nodes
    /\ Len(X) = 2
    /\ NumNodes = 3
    /\ graph.vcount = 2
    /\ fixed_points_mapping[0] /= 0
\* The point reached from v by following m until m[p] = p, within `fuel`
\* steps (Diverges when no such point is reached).
RECURSIVE FollowMapping(_, _, _)
FollowMapping(m, v, fuel) ==
    IF m[v] = v THEN v
    ELSE IF fuel = 0 THEN Diverges
    ELSE FollowMapping(m, m[v], fuel - 1)

\* C16: on every mapping the scan produces, _fixed_points terminates and
\* returns for each vertex v the point reached by following the mapping from
\* v until mapping[p] = p: each returned value is a fixed point of the
\* mapping and fixed points are returned as themselves.
C16_FixedPointsResolvesScanMappings ==
    /\ pc /= "diverged"
    /\ pc \in {"delete", "done"} /\ contract_nodes =>
          /\ DOMAIN fixed_points_mapping = DOMAIN mapping
          /\ \A v \in DOMAIN mapping :
                /\ fixed_points_mapping[v] /= Diverges
                /\ fixed_points_mapping[v] \in DOMAIN mapping
                /\ mapping[fixed_points_mapping[v]] = fixed_points_mapping[v]
                /\ fixed_points_mapping[v] = FollowMapping(mapping, v, NumNodes)
                /\ mapping[v] = v => fixed_points_mapping[v] = v

\* the scan has produced the chain 2 -> 1 -> 0 and _fixed_points resolved it
C16_Witness ==
    /\ pc = "delete"
    /\ mapping = [i \in 0..2 |-> IF i = 0 THEN 0 ELSE i - 1]
    /\ fixed_points_mapping = [i \in 0..2 |-> 0]
\* ------------------------------------------- _fixed_points on any mapping
\* _fixed_points is a module-level function: it can be handed any list of
\* indices into itself, not only the mappings the scan builds.
AnyMappings ==
    UNION {[0..(n - 1) -> 0..(n - 1)] : n \in 0..MaxMappingLen}

InitFixedPoints ==
    /\ mapping \in AnyMappings
    /\ pc = "fixed_points"
    /\ min_intersection = 1
    /\ store_edge_elements = FALSE
    /\ contract_nodes = TRUE
    /\ X = None
    /\ node_elements = None
    /\ node_tuples = None
    /\ node_index_pairs = None
    /\ weights = None
    /\ intersections = None
    /\ fixed_points_mapping = None
    /\ graph = None
    /\ graph_ = <<>>
    /\ calls = <<>>

\* terminal_states = _fixed_points(mapping): the call returns the list, or
\* one of its while loops never exits
fixed_points_call ==
    /\ pc = "fixed_points"
    /\ \E fpm \in {_fixed_points(mapping)} :
          IF \E i \in DOMAIN fpm : fpm[i] = Diverges
          THEN /\ pc' = "diverged"
               /\ UNCHANGED fixed_points_mapping
          ELSE /\ pc' = "returned"
               /\ fixed_points_mapping' = fpm
    /\ UNCHANGED <<min_intersection, store_edge_elements, contract_nodes, X,
                   node_elements, node_tuples, node_index_pairs, weights,
                   intersections, mapping, graph, graph_, calls>>

NextFixedPoints == fixed_points_call

SpecFixedPoints == InitFixedPoints /\ [][NextFixedPoints]_vars

\* a mapping that is a function into fixed points: following it from any
\* index reaches a fixed point
WellFormed(m) ==
    \A v \in DOMAIN m : FollowMapping(m, v, Len0(m)) /= Diverges

\* C17: on a malformed mapping _fixed_points neither loops forever nor
\* returns a list: it stops with an AssertionError.
C17_MalformedMappingAsserts ==
    (pc /= "fixed_points" /\ ~WellFormed(mapping)) => pc = "AssertionError"
\* C18: at every point of the scan with contract_nodes the mapping sends
\* every index to an index, and whenever mapping[v] = u with u /= v the
\* element set of v is contained in that of u, strictly or with u < v; so
\* following the mapping from any vertex reaches a fixed point, whose element
\* set contains that of the vertex.
C18_MappingHasNoCycles ==
    (Scanning /\ contract_nodes) =>
        /\ DOMAIN mapping = Indices
        /\ \A v \in Indices :
              /\ mapping[v] \in Indices
              /\ mapping[v] /= v => Contained(v, mapping[v])
              /\ FollowMapping(mapping, v, NumNodes) /= Diverges
              /\ ElementsOf(v) \subseteq
                     ElementsOf(FollowMapping(mapping, v, NumNodes))

\* in the middle of the scan of a cover A, A, B with A strictly inside B:
\* vertex 1 is mapped to its duplicate 0 and vertex 0 to its superset 2
C18_Witness ==
    /\ pc = "scan"
    /\ contract_nodes
    /\ Len(node_tuples) = 1
    /\ NumNodes = 3
    /\ mapping[1] = 0
    /\ mapping[0] = 2
    /\ ElementsOf(0) = ElementsOf(1)
    /\ ElementsOf(0) /= ElementsOf(2)
====
